---- MODULE Spec2Model ----
(***************************************************************************)
(* Gamma-exposure calculator for Deribit options.                          *)
(*                                                                         *)
(* The repository holds several revisions of the same program:             *)
(*   "service"  src/src/gamma/gamma.service.ts  HTTP, retry, batches of    *)
(*              asynchronous callbacks, gamma taken from the order book    *)
(*   "part002"  src/unnamed/part_002            HTTP, retry, synchronous   *)
(*              loop, Black-Scholes gamma                                  *)
(*   "index"    src/index.js                    WebSocket, command line    *)
(*   "part004"  src/unnamed/part_004            WebSocket, serverless      *)
(* A run of the model is a run of one of them (variable rev).              *)
(* SpecController is the HTTP controller in front of getGammaData          *)
(* (gamma.controller.ts, part_001); SpecHandler is the serverless handler  *)
(* of part_004 invoked several times in one process, with the promise,     *)
(* the message listener and the timer of every sendRequest call;           *)
(* SpecTransport is connect / sendRequest on its own, called at any moment.*)
(*                                                                         *)
(* Numbers.  JavaScript numbers are modelled in fixed point: the integer n *)
(* stands for n / Scale.  NaN stands for every non-finite value (NaN and   *)
(* the infinities), Undefined for a missing field.  Amounts in USD, times  *)
(* in years, volatilities and gammas all use the same scale.               *)
(* Every arithmetic result is rounded to the digits of the mantissa, as a   *)
(* floating-point result is.                                               *)
(***************************************************************************)
EXTENDS Integers, Sequences, FiniteSets, TLC

\* ---------------------------------------------------------------- bounds
MaxRetries == 3        \* largest retries argument given to fetchWithRetry
MaxInstruments == 3    \* longest instrument list an upstream read returns
MaxHandlers == 2       \* invocations of the serverless handler in one process
MaxCalls == 4          \* calls of sendRequest when the transport runs on its own

\* ------------------------------------------------------------- constants
RETRIES == 2           \* CONFIG.RETRIES
TIMEOUT == 15000       \* CONFIG.TIMEOUT, ms
BackoffUnit == 1000    \* ms per attempt of backoff
Scale == 100           \* fixed point: n stands for n / Scale
NaN == -999999         \* NaN, Infinity, -Infinity
Undefined == -888888   \* undefined / null / missing field
Null == -777777        \* the null that calculateGamma returns
MantissaLimit == 100   \* numbers keep two significant digits (a double keeps 53 bits)

\* ------------------------------------------------------------ arithmetic
IsNum(x) == x # NaN /\ x # Undefined /\ x # Null

\* !x of JavaScript
Falsy(x) == x = 0 \/ x = NaN \/ x = Undefined \/ x = Null

\* x || d
OrElse(x, d) == IF Falsy(x) THEN d ELSE x

\* x <= 0 (false when x is NaN or undefined; null <= 0 is true)
LeqZero(x) == IF x = Null THEN TRUE ELSE IsNum(x) /\ x <= 0

\* x > 0
GtZero(x) == IsNum(x) /\ x > 0

RECURSIVE Ulp(_)
\* the spacing of the representable numbers around magnitude m
Ulp(m) == IF m < MantissaLimit THEN 1 ELSE 10 * Ulp(m \div 10)

\* round to nearest: a result keeps only the digits of the mantissa
Nearest(m) == LET u == Ulp(m) IN ((m + u \div 2) \div u) * u

RoundSig(x) == IF x < 0 THEN 0 - Nearest(0 - x) ELSE Nearest(x)

\* a + b
FAdd(a, b) == IF IsNum(a) /\ IsNum(b) THEN RoundSig(a + b) ELSE NaN

\* a - b
FSub(a, b) == IF IsNum(a) /\ IsNum(b) THEN RoundSig(a - b) ELSE NaN

\* a === b of JavaScript on numbers: NaN equals nothing, not even itself
StrictEq(a, b) == IsNum(a) /\ IsNum(b) /\ a = b

FMul(a, b) == IF IsNum(a) /\ IsNum(b) THEN RoundSig((a * b) \div Scale) ELSE NaN

FDiv(a, b) == IF IsNum(a) /\ IsNum(b) /\ b # 0 THEN RoundSig((a * Scale) \div b) ELSE NaN

FAbs(a) == IF IsNum(a) THEN (IF a < 0 THEN 0 - a ELSE a) ELSE NaN

\* multiplication by a plain integer constant (100, a contract size)
IMul(a, k) == IF IsNum(a) THEN RoundSig(a * k) ELSE NaN

ISqrt(n) == CHOOSE s \in 0..(n + 1) : s * s <= n /\ (s + 1) * (s + 1) > n

\* Math.sqrt
FSqrt(a) == IF IsNum(a) /\ a >= 0 THEN RoundSig(ISqrt(a * Scale)) ELSE NaN

\* Math.log, by the series ln x = 2 (z + z^3/3 + z^5/5), z = (x-1)/(x+1)
FLn(a) ==
  IF IsNum(a) /\ a > 0
  THEN LET z  == FDiv(a - Scale, a + Scale)
           z3 == FMul(FMul(z, z), z)
           z5 == FMul(FMul(z3, z), z)
       IN  RoundSig(2 * (z + z3 \div 3 + z5 \div 5))
  ELSE NaN

\* Math.exp for an argument <= 0, by e^(-y) = 1 / (1 + y + y^2/2 + y^3/6);
\* below e^(-8) the result rounds to 0 at this scale
FExp(a) ==
  IF ~IsNum(a) THEN NaN
  ELSE IF a > 0 THEN RoundSig(Scale + a + FMul(a, a) \div 2)
  ELSE IF a < 0 - 8 * Scale THEN 0
  ELSE LET y  == 0 - a
           y2 == FMul(y, y)
           y3 == FMul(y2, y)
       IN  FDiv(Scale, Scale + y + y2 \div 2 + y3 \div 6)

IsFinite(x) == IsNum(x)

\* 1 / Math.sqrt(2 * Math.PI)
InvSqrt2Pi == FDiv(Scale, FSqrt(FMul(2 * Scale, 314)))

\* ------------------------------------------------------- calculateGamma
\* the guard of calculateGamma
GammaGuardNoSigma(S, K, T, sigma) ==
  \/ Falsy(S) \/ LeqZero(S)
  \/ Falsy(K) \/ LeqZero(K)
  \/ Falsy(T) \/ LeqZero(T)
  \/ Falsy(sigma)

GammaGuard(S, K, T, sigma) ==
  \/ Falsy(S) \/ LeqZero(S)
  \/ Falsy(K) \/ LeqZero(K)
  \/ Falsy(T) \/ LeqZero(T)
  \/ Falsy(sigma) \/ LeqZero(sigma)

calculateGamma(S, K, T, r, sigma) ==
  IF GammaGuard(S, K, T, sigma) THEN Null
  ELSE LET sqrtT    == FSqrt(T)
           d1       == FDiv(FAdd(FLn(FDiv(S, K)),
                                 FMul(FAdd(r, FMul(Scale \div 2, FMul(sigma, sigma))), T)),
                            FMul(sigma, sqrtT))
           nPrimeD1 == FMul(InvSqrt2Pi, FExp(FMul(0 - (Scale \div 2), FMul(d1, d1))))
           contractSize == 1
           gamma    == IMul(FDiv(nPrimeD1, FMul(FMul(S, sigma), sqrtT)), contractSize)
       IN  IF IsFinite(gamma) THEN gamma ELSE Null

\* ------------------------------------------------------------------ state
VARIABLES
  call,               \* the fetchWithRetry invocation of the run's current read
  req,                \* the sendRequest of the run's current read (WebSocket)
  gIn, gOut,          \* arguments and result of the last calculateGamma call
  rev,                \* which revision of the program runs
  pc,                 \* position of the run
  reads,              \* the upstream reads issued so far, in order
  indexPrice,
  instruments,        \* result of get_instruments
  marketDataMap,      \* instrument_name -> quote
  gammaByExpiration,  \* the buckets, in insertion order of their keys
  processedCount,
  skippedCount,
  batchStart,         \* i of the batch loop
  cb,                 \* state of each callback of the current batch
  result,             \* what the run gave its caller
  request,            \* the HTTP request the controller received
  currency,           \* the currency getGammaData was called for
  response,           \* what the controller answered
  ws,                 \* part_004: the module-level socket
  requestId,          \* part_004: the module-level request counter
  sockets,            \* part_004: every socket opened, and who closed it
  handlers,           \* part_004: the invocations of the serverless handler
  requests,           \* part_004: every call of sendRequest, in order
  timeouts            \* part_004: how many of the 10 s timers have fired

vars == <<call, req, gIn, gOut, rev, pc, reads, indexPrice, instruments, marketDataMap,
          gammaByExpiration, processedCount, skippedCount, batchStart, cb, result,
          request, currency, response, ws, requestId, sockets, handlers, requests,
          timeouts>>

controllerVars == <<request, currency, response>>

handlerVars == <<ws, requestId, sockets, handlers, requests, timeouts>>

runVars == <<rev, pc, reads, indexPrice, instruments, marketDataMap,
             gammaByExpiration, processedCount, skippedCount, batchStart, cb, result>>

gammaVars == <<gIn, gOut>>

\* --------------------------------------------------------- fetchWithRetry
NoData == [kind |-> "none", price |-> 0, instruments |-> <<>>, book |-> <<>>]

NoError == [n |-> 0, msg |-> "none"]

IdleCall ==
  [url |-> "none", retries |-> 0, attempt |-> 0, st |-> "idle", timer |-> FALSE,
   data |-> NoData, error |-> NoError,
   \* history, for the statements about a call
   issued |-> 0, waits |-> <<>>, okAt |-> 0, failures |-> 0,
   lastFail |-> "none", apiErr |-> FALSE]

\* loop body up to `await fetch(...)`: a controller, its timer, the request
LoopHead(c) == [c EXCEPT !.st = "fetching", !.timer = TRUE, !.issued = @ + 1]

\* the catch block is left (its errorMsg with it): attempt++ and the loop
\* condition; the throw after the loop
LoopNext(c) ==
  LET a == c.attempt + 1
  IN  IF a <= c.retries
      THEN LoopHead([c EXCEPT !.attempt = a, !.lastFail = "none"])
      ELSE [c EXCEPT !.attempt = a, !.st = "failed",
                     !.error = [n |-> 0, msg |-> "Unknown error in fetchWithRetry"]]

BackoffFlat(attempt) == BackoffUnit

\* 1000 * (attempt + 1)
Backoff(attempt) == BackoffUnit * (attempt + 1)

CatchKeepsFirst(c, errorMsg) ==
  IF c.attempt = c.retries
  THEN [c EXCEPT !.st = "failed",
                 !.error = [n |-> c.retries + 1,
                            msg |-> IF c.error.msg = "none" THEN errorMsg ELSE c.error.msg]]
  ELSE [c EXCEPT !.st = "waiting", !.waits = Append(@, Backoff(c.attempt)),
                 !.error = [n |-> 0,
                            msg |-> IF c.error.msg = "none" THEN errorMsg ELSE c.error.msg]]

\* the catch block: give up after the last attempt, else back off
Catch(c, errorMsg) ==
  IF c.attempt = c.retries
  THEN [c EXCEPT !.st = "failed", !.error = [n |-> c.retries + 1, msg |-> errorMsg]]
  ELSE [c EXCEPT !.st = "waiting", !.waits = Append(@, Backoff(c.attempt))]

ReturnFallsThrough(c, data) == LoopNext([c EXCEPT !.data = data])

\* return data.result / return data
Return(c, data) == [c EXCEPT !.st = "ok", !.data = data]

\* an attempt failed with errorMsg (history, then the catch block)
AttemptFailed(c, errorMsg) ==
  Catch([c EXCEPT !.failures = @ + 1, !.lastFail = errorMsg,
                  !.apiErr = @ \/ errorMsg = "API Error"], errorMsg)

\* fetchWithRetry(url, retries) up to its first await
StartCall(url, retries) ==
  IF 0 <= retries
  THEN LoopHead([IdleCall EXCEPT !.url = url, !.retries = retries])
  ELSE [IdleCall EXCEPT !.url = url, !.retries = retries, !.st = "failed",
                        !.error = [n |-> 0, msg |-> "Unknown error in fetchWithRetry"]]

\* the response (status line and headers) arrives: clearTimeout, then
\* response.ok decides between the HTTP error and reading the body
ResponseArrives(ok) ==
  /\ call.st = "fetching"
  /\ call' = IF ok THEN [call EXCEPT !.timer = FALSE, !.st = "body"]
                   ELSE AttemptFailed([call EXCEPT !.timer = FALSE], "HTTP")

\* fetch rejects (DNS, connection reset).  clearTimeout is skipped; the timer
\* later aborts a controller whose request is over, which changes nothing, so
\* the timer is dropped here.
FetchRejects ==
  /\ call.st = "fetching"
  /\ call' = AttemptFailed([call EXCEPT !.timer = FALSE], "network")

\* the timer fires first: controller.abort() rejects the fetch
TimeoutFires ==
  /\ call.st = "fetching"
  /\ call.timer
  /\ call' = AttemptFailed([call EXCEPT !.timer = FALSE], "aborted")

\* response.json() resolves with the body
JsonResolves(data) ==
  /\ call.st = "body"
  /\ call' = IF data.kind = "error"
             THEN AttemptFailed(call, "API Error")
             ELSE Return([call EXCEPT !.okAt = IF @ = 0 THEN call.issued ELSE @], data)

\* response.json() rejects: the body is not JSON
JsonRejects ==
  /\ call.st = "body"
  /\ call' = AttemptFailed(call, "parse")

\* the backoff delay is over: next iteration of the loop
BackoffElapsed ==
  /\ call.st = "waiting"
  /\ call' = LoopNext(call)

\* bodies of a url nobody interprets
TestPayloads ==
  {[NoData EXCEPT !.kind = k] : k \in {"error", "result", "bare"}}

\* ------------------------------------------ specification: one fetch alone
Invoke(retries) ==
  /\ call.st = "idle"
  /\ pc = "idle"
  /\ call' = StartCall("test", retries)
  /\ UNCHANGED <<req, gammaVars, handlerVars, controllerVars, runVars>>

FetchStep ==
  /\ call.url = "test"
  /\ \/ \E ok \in BOOLEAN : ResponseArrives(ok)
     \/ FetchRejects
     \/ TimeoutFires
     \/ \E d \in TestPayloads : JsonResolves(d)
     \/ JsonRejects
     \/ BackoffElapsed
  /\ UNCHANGED <<req, gammaVars, handlerVars, controllerVars, runVars>>

\* --------------------------------------- specification: calculateGamma alone
NumDomain == {Undefined, NaN, 0 - Scale, 0, Scale \div 4, Scale, 2 * Scale}

NoArgs == [S |-> Undefined, K |-> Undefined, T |-> Undefined, r |-> 0, sigma |-> Undefined]

CallCalculateGamma ==
  /\ gIn = NoArgs /\ gOut = Undefined
  /\ pc = "idle" /\ call.st = "idle"
  /\ \E S \in NumDomain, K \in NumDomain, T \in NumDomain, sigma \in NumDomain :
       /\ gIn' = [S |-> S, K |-> K, T |-> T, r |-> 0, sigma |-> sigma]
       /\ gOut' = calculateGamma(S, K, T, 0, sigma)
  /\ UNCHANGED <<call, req, runVars, handlerVars, controllerVars>>

\* ------------------------------------------------------- the upstream data
Now == 10              \* Date.now(), in ticks
TicksPerDay == 2       \* ticks in a UTC day
TicksPerYear == 4      \* 1000 * 60 * 60 * 24 * 365 ms, in ticks
batchSize == 2         \* batchSize (50 in the source), scaled to the lists tried
RoundUnit == 10        \* gamma.toFixed(8), scaled: one decimal of the two kept

\* what get_instruments can list; "n" stands for a null entry of the list
Names == {"a", "b", "c", "d", "x", "z", "n"}

Inst(name) ==
  CASE name = "a" -> [instrument_name |-> "a", isNull |-> FALSE, strike |-> 2 * Scale,
                      expiration_timestamp |-> 12, option_type |-> "call", instrument_id |-> 1]
    [] name = "b" -> [instrument_name |-> "b", isNull |-> FALSE, strike |-> 2 * Scale,
                      expiration_timestamp |-> 13, option_type |-> "put", instrument_id |-> 2]
    [] name = "c" -> [instrument_name |-> "c", isNull |-> FALSE, strike |-> Scale,
                      expiration_timestamp |-> 14, option_type |-> "call", instrument_id |-> 3]
    [] name = "d" -> [instrument_name |-> "d", isNull |-> FALSE, strike |-> 2 * Scale,
                      expiration_timestamp |-> 13, option_type |-> "call", instrument_id |-> 6]
    [] name = "x" -> [instrument_name |-> "x", isNull |-> FALSE, strike |-> 2 * Scale,
                      expiration_timestamp |-> 8, option_type |-> "put", instrument_id |-> 4]
    [] name = "z" -> [instrument_name |-> "z", isNull |-> FALSE, strike |-> 2 * Scale,
                      expiration_timestamp |-> 12, option_type |-> "call", instrument_id |-> 5]
    [] OTHER      -> [instrument_name |-> "n", isNull |-> TRUE, strike |-> Undefined,
                      expiration_timestamp |-> Undefined, option_type |-> "none",
                      instrument_id |-> Undefined]

\* the quote get_book_summary_by_currency gives for an instrument, when it has one
Quote(name) ==
  CASE name = "a" -> [instrument_name |-> "a", mark_iv |-> Scale, open_interest |-> 20 * Scale,
                      mark_price |-> 5]
    [] name = "b" -> [instrument_name |-> "b", mark_iv |-> Scale, open_interest |-> 120,
                      mark_price |-> 5]
    [] name = "d" -> [instrument_name |-> "d", mark_iv |-> Scale, open_interest |-> 120,
                      mark_price |-> 5]
    [] name = "c" -> [instrument_name |-> "c", mark_iv |-> 2 * Scale, open_interest |-> Scale,
                      mark_price |-> 5]
    [] name = "z" -> [instrument_name |-> name, mark_iv |-> Scale, open_interest |-> 0,
                      mark_price |-> 5]
    [] OTHER      -> [instrument_name |-> name, mark_iv |-> Scale, open_interest |-> Scale,
                      mark_price |-> 5]

IndexPrices == {0, 2 * Scale}

\* greeks.gamma of get_order_book: a number, or missing
OrderBookGammas == {Undefined, 5}

Injective(f) == \A i, j \in DOMAIN f : f[i] = f[j] => i = j

InstrumentLists ==
  {l \in UNION {[1..n -> Names] : n \in 0..MaxInstruments} : Injective(l)}

Range(f) == {f[i] : i \in DOMAIN f}

\* the book summaries tried for a list: a quote for every named instrument,
\* for all but one, or for none
Books(list) ==
  LET named == Range(list) \ {"n"}
  IN  {named, {}} \cup {named \ {m} : m \in named}

\* the bodies an upstream read can answer with
Payloads(url) ==
  {[NoData EXCEPT !.kind = "error"]} \cup
  CASE url = "price" ->
         {[NoData EXCEPT !.kind = "result", !.price = p] : p \in IndexPrices}
    [] url = "instruments" ->
         {[NoData EXCEPT !.kind = "result", !.instruments = l] : l \in InstrumentLists}
    [] url = "book" ->
         {[NoData EXCEPT !.kind = "result", !.book = q] : q \in Books(instruments)}
    [] OTHER -> {[NoData EXCEPT !.kind = "result"]}

\* the distance to the expiry, whichever side of now it lies on
TimeToExpiryAbs(ts) ==
  IF IsNum(ts) THEN (IF ts > Now THEN (ts - Now) * Scale ELSE (Now - ts) * Scale) \div TicksPerYear
  ELSE NaN

\* (expiration_timestamp - now) / (1000 * 60 * 60 * 24 * 365)
TimeToExpiry(ts) ==
  IF IsNum(ts) THEN ((ts - Now) * Scale) \div TicksPerYear ELSE NaN

\* new Date(expiration_timestamp).toISOString().split('T')[0], as the number
\* of the UTC day
ExpirationDate(ts) == ts \div TicksPerDay

\* parseFloat(gamma.toFixed(8))
ToFixed8(g) == IF IsNum(g) THEN ((g + RoundUnit \div 2) \div RoundUnit) * RoundUnit ELSE NaN

\* ------------------------------------------------------------ the buckets
\* the accumulators of a run: buckets, processedCount, skippedCount; threw
\* is set when an exception left the instrument loop
Acc(g, p, k) == [g |-> g, p |-> p, s |-> k, threw |-> FALSE]

\* a new bucket (index.js also keeps the expiration_timestamp of the first
\* instrument in it; nothing reads that field)
EmptyBucket(date) ==
  [date |-> date, total_gamma |-> 0, total_gamma_usd |-> 0, call_gamma |-> 0,
   call_gamma_usd |-> 0, put_gamma |-> 0, put_gamma_usd |-> 0, instruments |-> <<>>]

\* a lookup that never finds the bucket
BucketIndexNeverFound(g, date) == 0

\* index of the bucket of a date, 0 when gammaByExpiration[date] is missing
BucketIndex(g, date) ==
  IF \E i \in 1..Len(g) : g[i].date = date
  THEN CHOOSE i \in 1..Len(g) : g[i].date = date
  ELSE 0

\* create the bucket on the first insert, add to the totals, push the record
AddRecord(g, date, optionType, gammaExposure, gammaExposureUSD, rec) ==
  LET i  == BucketIndex(g, date)
      g1 == IF i = 0 THEN Append(g, EmptyBucket(date)) ELSE g
      j  == IF i = 0 THEN Len(g1) ELSE i
      b1 == [g1[j] EXCEPT !.total_gamma = FAdd(@, gammaExposure),
                          !.total_gamma_usd = FAdd(@, gammaExposureUSD)]
      b2 == IF optionType = "call"
            THEN [b1 EXCEPT !.call_gamma = FAdd(@, gammaExposure),
                            !.call_gamma_usd = FAdd(@, gammaExposureUSD)]
            ELSE IF optionType = "put"
            THEN [b1 EXCEPT !.put_gamma = FAdd(@, gammaExposure),
                            !.put_gamma_usd = FAdd(@, gammaExposureUSD)]
            ELSE b1
  IN  [g1 EXCEPT ![j] = [b2 EXCEPT !.instruments = Append(@, rec)]]

\* calculateGammaInDollars of part_002: OI * gamma * 100 * k * S * (0.01 * S)
calculateGammaInDollars(gamma, price, openInterest) ==
  IF Falsy(gamma) THEN 0
  ELSE LET k == 1
           onePercentOfSpot == FMul(1, price)
       IN  FMul(FMul(IMul(IMul(FMul(openInterest, gamma), 100), k), price), onePercentOfSpot)

\* calculateGammaInDollars of index.js: gamma * S^2 * OI * dS
calculateGammaInDollarsWs(gamma, price, openInterest, dS) ==
  IF Falsy(gamma) THEN 0
  ELSE IMul(FMul(FMul(gamma, FMul(price, price)), openInterest), dS)

\* the loop body once gamma is known: the skip on a null gamma, the
\* exposures, the record, the fold
FoldInstrument(acc, inst, marketData, price, overWs, sigma, gamma) ==
  IF gamma = Null THEN [acc EXCEPT !.s = @ + 1]
  ELSE
    LET openInterest == OrElse(marketData.open_interest, 0)
        contractSize == 1
        gammaExposure == IMul(FMul(gamma, openInterest), contractSize)
        gammaExposureUSD ==
          IF overWs THEN calculateGammaInDollarsWs(gamma, price, openInterest, 100)
                    ELSE calculateGammaInDollars(gamma, price, openInterest)
        rec == [instrument_name |-> inst.instrument_name, strike |-> inst.strike,
                option_type |-> inst.option_type, gamma |-> ToFixed8(gamma),
                open_interest |-> openInterest, gamma_exposure |-> gammaExposure,
                gamma_exposure_usd |-> gammaExposureUSD, mark_iv |-> sigma,
                mark_price |-> OrElse(marketData.mark_price, 0)]
    IN  [acc EXCEPT !.p = @ + 1,
                    !.g = AddRecord(@, ExpirationDate(inst.expiration_timestamp),
                                    inst.option_type, gammaExposure,
                                    gammaExposureUSD, rec)]

\* the body of the instrument loop of part_002 and index.js, after the
\* destructuring: join, gamma, then the fold
ProcessInstrument(acc, inst, mdm, price, overWs) ==
  IF inst.instrument_name \notin DOMAIN mdm THEN [acc EXCEPT !.s = @ + 1]
  ELSE FoldInstrument(acc, inst, mdm[inst.instrument_name], price, overWs,
                      mdm[inst.instrument_name].mark_iv,
                      calculateGamma(price, inst.strike,
                                     TimeToExpiry(inst.expiration_timestamp), 0,
                                     mdm[inst.instrument_name].mark_iv))

\* the loop body with a catch that swallows without counting
ProcessCaughtNoTally(acc, inst, mdm, price) ==
  IF inst.isNull THEN acc
  ELSE ProcessInstrument(acc, inst, mdm, price, FALSE)

\* part_002: the loop body inside try / catch; destructuring a null entry
\* throws, and the catch counts a skip
ProcessCaught(acc, inst, mdm, price) ==
  IF inst.isNull THEN [acc EXCEPT !.s = @ + 1]
  ELSE ProcessInstrument(acc, inst, mdm, price, FALSE)

\* index.js, part_004: no try / catch in the loop; the exception leaves forEach
ProcessUncaught(acc, inst, mdm, price) ==
  IF acc.threw THEN acc
  ELSE IF inst.isNull THEN [acc EXCEPT !.threw = TRUE]
  ELSE ProcessInstrument(acc, inst, mdm, price, TRUE)

RECURSIVE ForEach(_, _, _, _, _, _)
\* instruments.forEach(...) from index i on
ForEach(acc, list, i, mdm, price, overWs) ==
  IF i > Len(list) THEN acc
  ELSE ForEach(IF overWs THEN ProcessUncaught(acc, Inst(list[i]), mdm, price)
                     ELSE ProcessCaught(acc, Inst(list[i]), mdm, price),
               list, i + 1, mdm, price, overWs)

\* gamma.service.ts: a callback after its order-book fetch settled (or without
\* one): exposure from the order-book gamma, fold
FoldService(acc, inst, mdm, price, gammaFromAPI) ==
  LET marketData   == mdm[inst.instrument_name]
      openInterest == OrElse(marketData.open_interest, 0)
      markIv       == FDiv(OrElse(marketData.mark_iv, 0), 100 * Scale)
      timeToExpiry == TimeToExpiry(inst.expiration_timestamp)
  IN  IF GtZero(openInterest) /\ GtZero(markIv) /\ GtZero(timeToExpiry)
      THEN LET gammaFromOrderBook == gammaFromAPI
               gex    == IMul(FMul(openInterest, gammaFromOrderBook), 100)
               gexUSD == FMul(gex, price)
               gammaExposure    == FAbs(gex)
               gammaExposureUSD == FAbs(gexUSD)
               rec == [instrument_name |-> inst.instrument_name, strike |-> inst.strike,
                       option_type |-> inst.option_type, gamma |-> gammaFromOrderBook,
                       open_interest |-> openInterest, gamma_exposure |-> gammaExposure,
                       gamma_exposure_usd |-> gammaExposureUSD, mark_iv |-> markIv,
                       mark_price |-> OrElse(marketData.mark_price, 0)]
           IN  [acc EXCEPT !.p = @ + 1,
                           !.g = AddRecord(@, ExpirationDate(inst.expiration_timestamp),
                                           inst.option_type, gammaExposure,
                                           gammaExposureUSD, rec)]
      ELSE acc

\* ----------------------------------------------------------------- a run
HttpRevs == {"service", "part002"}

WsRevs == {"index", "part004"}

ReadNames == {"price", "instruments", "book"}

NoRequest == [method |-> "none", st |-> "none", data |-> NoData, error |-> "none"]

CurAcc == Acc(gammaByExpiration, processedCount, skippedCount)

SetAcc(acc) ==
  /\ gammaByExpiration' = acc.g
  /\ processedCount' = acc.p
  /\ skippedCount' = acc.s

\* the run throws: nothing is returned but the error
Abort(text, cause) ==
  /\ pc' = "done"
  /\ result' = [status |-> "error", text |-> text, cause |-> cause]

\* getGammaData / calculateGammaByExpiration is called
StartRun(r) ==
  /\ pc = "idle" /\ call.st = "idle" /\ gOut = Undefined
  /\ rev' = r
  /\ currency' = "BTC"
  /\ pc' = "price"
  /\ reads' = <<"price">>
  /\ IF r \in HttpRevs
     THEN call' = StartCall("price", RETRIES) /\ req' = req
     ELSE req' = [NoRequest EXCEPT !.method = "price", !.st = "pending"] /\ call' = call
  /\ UNCHANGED <<gammaVars, handlerVars, request, response, indexPrice, instruments, marketDataMap, gammaByExpiration,
                 processedCount, skippedCount, batchStart, cb, result>>

\* the events of the fetchWithRetry of the current read
HttpStep ==
  /\ pc \in ReadNames /\ rev \in HttpRevs
  /\ \/ \E ok \in BOOLEAN : ResponseArrives(ok)
     \/ FetchRejects
     \/ TimeoutFires
     \/ call.st = "body" /\ \E d \in Payloads(call.url) : JsonResolves(d)
     \/ JsonRejects
     \/ BackoffElapsed
  /\ UNCHANGED <<req, gammaVars, handlerVars, controllerVars, runVars>>

\* the message of the outer catch around the empty-result error
EmptyResultText == "Failed to fetch gamma data: No expiration dates found in response"

\* sortedExpirations.length === 0 throws; otherwise the result is returned
\* (gamma.service.ts first writes a file, inside its own try / catch)
Finish(acc) ==
  /\ SetAcc(acc)
  /\ IF Len(acc.g) = 0
     THEN Abort(EmptyResultText, NoError)
     ELSE /\ pc' = "done"
          /\ result' = [status |-> "success", gammaByExpiration |-> acc.g,
                        indexPrice |-> indexPrice]

RECURSIVE StartCallbacks(_, _, _, _, _)
\* batch.map(async ...) runs each callback up to its first await: a null
\* entry or a missing quote counts a skip; an instrument with an id awaits its
\* order book; one without goes on with gammaFromAPI = 0
StartCallbacks(acc, cbs, i, last, mdm) ==
  IF i > last THEN [acc |-> acc, cb |-> cbs]
  ELSE LET inst == Inst(instruments[i])
       IN  IF inst.isNull \/ inst.instrument_name \notin DOMAIN mdm
           THEN StartCallbacks([acc EXCEPT !.s = @ + 1], [cbs EXCEPT ![i] = "done"],
                               i + 1, last, mdm)
           ELSE IF ~Falsy(inst.instrument_id)
           THEN StartCallbacks(acc, [cbs EXCEPT ![i] = "awaiting"], i + 1, last, mdm)
           ELSE StartCallbacks(FoldService(acc, inst, mdm, indexPrice, 0),
                               [cbs EXCEPT ![i] = "done"], i + 1, last, mdm)

Min(a, b) == IF a < b THEN a ELSE b

\* one iteration of the batch loop up to `await Promise.all`, or the end of
\* the loop
BatchLoop(acc, i, mdm) ==
  IF i < Len(instruments)
  THEN LET last == Min(i + batchSize, Len(instruments))
           r    == StartCallbacks(acc, [k \in (i + 1)..last |-> "new"], i + 1, last, mdm)
       IN  /\ SetAcc(r.acc)
           /\ cb' = r.cb
           /\ batchStart' = i
           /\ pc' = "batch"
           /\ result' = result
  ELSE /\ Finish(acc)
       /\ cb' = <<>>
       /\ batchStart' = i

NextRead(name) == IF name = "price" THEN "instruments" ELSE "book"

\* bookSummary.forEach(item => marketDataMap[item.instrument_name] = item)
MarketDataMap(book) == [n \in book |-> Quote(n)]

\* await this.fetchWithRetry(...) of getGammaData settles: a rejection goes to
\* the outer catch and is rethrown; a result is kept and the next read is
\* issued; after the last read the invocation is over and the instruments are
\* processed
HttpReadDone ==
  /\ rev \in HttpRevs /\ pc \in ReadNames
  /\ call.st \in {"ok", "failed"}
  /\ IF call.st = "failed"
     THEN /\ Abort("Failed to fetch gamma data: Failed after attempts", call.error)
          /\ UNCHANGED <<call, reads, indexPrice, instruments, marketDataMap,
                         gammaByExpiration, processedCount, skippedCount, batchStart, cb>>
     ELSE IF pc # "book"
     THEN /\ indexPrice' = IF pc = "price" THEN call.data.price ELSE indexPrice
          /\ instruments' = IF pc = "instruments" THEN call.data.instruments ELSE instruments
          /\ pc' = NextRead(pc)
          /\ reads' = Append(reads, NextRead(pc))
          /\ call' = StartCall(NextRead(pc), RETRIES)
          /\ UNCHANGED <<marketDataMap, gammaByExpiration, processedCount, skippedCount,
                         batchStart, cb, result>>
     ELSE /\ marketDataMap' = MarketDataMap(call.data.book)
          /\ IF rev = "part002"
             THEN /\ Finish(ForEach(Acc(<<>>, 0, 0), instruments, 1,
                                    MarketDataMap(call.data.book), indexPrice, FALSE))
                  /\ UNCHANGED <<batchStart, cb>>
             ELSE BatchLoop(Acc(<<>>, 0, 0), 0, MarketDataMap(call.data.book))
          /\ call' = IdleCall
          /\ UNCHANGED <<reads, indexPrice, instruments>>
  /\ UNCHANGED <<req, gammaVars, handlerVars, controllerVars, rev>>

\* the order-book fetch chains that have started and not yet completed
InFlight == {i \in DOMAIN cb : cb[i] = "awaiting"}

\* a callback whose increment of processedCount is lost
OrderBookSettlesLost(i, rejected, gamma) ==
  /\ rev = "service" /\ pc = "batch"
  /\ i \in DOMAIN cb /\ cb[i] = "awaiting"
  /\ SetAcc([FoldService(CurAcc, Inst(instruments[i]), marketDataMap, indexPrice,
                         IF rejected THEN 0 ELSE gamma)
               EXCEPT !.p = IF InFlight = {i} THEN @ ELSE processedCount])
  /\ cb' = [cb EXCEPT ![i] = "done"]
  /\ UNCHANGED <<call, req, gammaVars, handlerVars, controllerVars, rev, pc, reads, indexPrice, instruments,
                 marketDataMap, batchStart, result>>

\* gamma.service.ts: the order-book fetch of one callback settles, rejected
\* (gammaFromAPI = 0) or with greeks?.gamma, and the callback runs to its end
OrderBookSettles(i, rejected, gamma) ==
  /\ rev = "service" /\ pc = "batch"
  /\ i \in DOMAIN cb /\ cb[i] = "awaiting"
  /\ SetAcc(FoldService(CurAcc, Inst(instruments[i]), marketDataMap, indexPrice,
                        IF rejected THEN 0 ELSE gamma))
  /\ cb' = [cb EXCEPT ![i] = "done"]
  /\ UNCHANGED <<call, req, gammaVars, handlerVars, controllerVars, rev, pc, reads, indexPrice, instruments,
                 marketDataMap, batchStart, result>>

\* the batch loop going on while a callback is still running
BatchDoneEarly ==
  /\ rev = "service" /\ pc = "batch"
  /\ BatchLoop(CurAcc, batchStart + batchSize, marketDataMap)
  /\ UNCHANGED <<call, req, gammaVars, handlerVars, controllerVars, rev, reads, indexPrice, instruments, marketDataMap>>

\* await Promise.all(batchPromises) resolves: the next batch, or the end
BatchDone ==
  /\ rev = "service" /\ pc = "batch"
  /\ \A i \in DOMAIN cb : cb[i] = "done"
  /\ BatchLoop(CurAcc, batchStart + batchSize, marketDataMap)
  /\ UNCHANGED <<call, req, gammaVars, handlerVars, controllerVars, rev, reads, indexPrice, instruments, marketDataMap>>

\* sendRequest settles: the matching message resolves with its result or
\* rejects with its error; the 10 s timer or a message that does not parse
\* rejects
WsSettles ==
  /\ rev \in WsRevs /\ pc \in ReadNames /\ req.st = "pending"
  /\ \/ \E d \in Payloads(req.method) :
          req' = IF d.kind = "error"
                 THEN [req EXCEPT !.st = "rejected", !.error = "API Error"]
                 ELSE [req EXCEPT !.st = "resolved", !.data = d]
     \/ req' = [req EXCEPT !.st = "rejected", !.error = "Timeout for request"]
     \/ req' = [req EXCEPT !.st = "rejected", !.error = "SyntaxError"]
  /\ UNCHANGED <<call, gammaVars, handlerVars, controllerVars, runVars>>

\* !instruments || instruments.length === 0, with the null test alone
InstrumentsUnusableNullOnly(list) == FALSE

\* !instruments || instruments.length === 0 (getInstruments returns a list)
InstrumentsUnusable(list) == Len(list) = 0

\* getIndexPrice / getInstruments / getBookSummary return: the result, or
\* null / [] when sendRequest rejected; calculateGammaByExpiration throws on a
\* missing value, else goes on to the next read and then to the loop
WsReadDone ==
  /\ rev \in WsRevs /\ pc \in ReadNames
  /\ req.st \in {"resolved", "rejected"}
  /\ LET price == IF req.st = "rejected" THEN Null ELSE req.data.price
         list  == IF req.st = "rejected" THEN <<>> ELSE req.data.instruments
         book  == IF req.st = "rejected" THEN {} ELSE req.data.book
     IN  IF \/ pc = "price" /\ Falsy(price)
            \/ pc = "instruments" /\ InstrumentsUnusable(list)
            \/ pc = "book" /\ book = {}
         THEN /\ Abort("could not get " \o pc, NoError)
              /\ UNCHANGED <<req, reads, indexPrice, instruments, marketDataMap,
                             gammaByExpiration, processedCount, skippedCount>>
         ELSE IF pc # "book"
         THEN /\ indexPrice' = IF pc = "price" THEN price ELSE indexPrice
              /\ instruments' = IF pc = "instruments" THEN list ELSE instruments
              /\ pc' = NextRead(pc)
              /\ reads' = Append(reads, NextRead(pc))
              /\ req' = [NoRequest EXCEPT !.method = NextRead(pc), !.st = "pending"]
              /\ UNCHANGED <<marketDataMap, gammaByExpiration, processedCount,
                             skippedCount, result>>
         ELSE LET acc == ForEach(Acc(<<>>, 0, 0), instruments, 1, MarketDataMap(book),
                                 indexPrice, TRUE)
              IN  /\ marketDataMap' = MarketDataMap(book)
                  /\ SetAcc(acc)
                  /\ IF acc.threw
                     THEN Abort("TypeError", NoError)
                     ELSE /\ pc' = "done"
                          /\ result' = [status |-> "success", gammaByExpiration |-> acc.g,
                                        indexPrice |-> indexPrice]
                  /\ UNCHANGED <<req, reads, indexPrice, instruments>>
  /\ UNCHANGED <<call, gammaVars, handlerVars, controllerVars, rev, batchStart, cb>>

\* ------------------------------------------------------------ controller
Absent == "absent"     \* the request has no currency in its query

Currencies == {Absent, "BTC", "btc", "ETH", "eth", "Eth", "XRP", "xrp", ""}

Supported == {"BTC", "ETH"}

\* String.prototype.toUpperCase on the strings above
toUpperCase(s) ==
  CASE s \in {"BTC", "btc"} -> "BTC"
    [] s \in {"ETH", "eth", "Eth"} -> "ETH"
    [] s \in {"XRP", "xrp"} -> "XRP"
    [] OTHER -> s

\* the default of a parameter applies when the argument is undefined
OrDefault(q) == IF q = Absent THEN "BTC" ELSE q

NoRequestYet == [controller |-> "none", currency |-> Absent]

NoResponse == [code |-> 0]

InvalidCurrencyText == "Invalid currency. Supported: BTC, ETH"

HttpError(message) == [code |-> 500, body |-> [error |-> message, status |-> "error"]]

\* a controller that answers 200 with whatever the service gave
RespondAlwaysOk(res) == [code |-> 200, body |-> res]

\* getGamma after the await: return data, or the catch that wraps the
\* message of the error in an HttpException with status 500
Respond(res) ==
  IF res.status = "success"
  THEN [code |-> 200, body |-> [gammaByExpiration |-> res.gammaByExpiration,
                                indexPrice |-> res.indexPrice]]
  ELSE HttpError(res.text)

\* what getGammaData can give its caller (see Finish and Abort)
Outcomes ==
  { [status |-> "success", gammaByExpiration |-> <<EmptyBucket(6)>>, indexPrice |-> 200],
    [status |-> "error", text |-> EmptyResultText, cause |-> NoError],
    [status |-> "error", text |-> "Failed to fetch gamma data: Failed after attempts",
     cause |-> [n |-> RETRIES + 1, msg |-> "aborted"]] }

\* GET /api/gamma arrives.  The controller of gamma.controller.ts ("plain")
\* has no query parameter and calls getGammaData(); the one of part_001
\* ("query") upper-cases the currency, refuses what is not supported and
\* calls getGammaData(curr)
Receive(r, ctl, q) ==
  /\ pc = "idle" /\ call.st = "idle" /\ gOut = Undefined
  /\ rev' = r
  /\ request' = [controller |-> ctl, currency |-> q]
  /\ IF ctl = "query"
     THEN LET curr == toUpperCase(OrDefault(q))
          IN  IF curr \notin Supported
              THEN /\ response' = HttpError(InvalidCurrencyText)
                   /\ pc' = "done"
                   /\ currency' = currency
              ELSE /\ currency' = curr
                   /\ pc' = "called"
                   /\ response' = response
     ELSE /\ currency' = "BTC"
          /\ pc' = "called"
          /\ response' = response
  /\ UNCHANGED <<call, req, gammaVars, handlerVars, reads, indexPrice, instruments,
                 marketDataMap, gammaByExpiration, processedCount, skippedCount,
                 batchStart, cb, result>>

\* the promise of getGammaData settles
ServiceSettles(res) ==
  /\ pc = "called"
  /\ pc' = "done"
  /\ result' = res
  /\ UNCHANGED <<call, req, gammaVars, handlerVars, controllerVars, rev, reads, indexPrice,
                 instruments, marketDataMap, gammaByExpiration, processedCount,
                 skippedCount, batchStart, cb>>

\* the controller goes on after its await
ControllerResponds ==
  /\ pc = "done" /\ rev \in HttpRevs /\ response = NoResponse
  /\ response' = Respond(result)
  /\ UNCHANGED <<call, req, gammaVars, handlerVars, runVars, request, currency>>

\* ------------------------------------------- part_004: serverless handler
Methods == <<"public/auth", "public/get_index_price", "public/get_instruments",
             "public/get_book_summary_by_currency">>

Handlers == 1..MaxHandlers

NoSocket == 0

\* the socket that invocation h opens is socket h
NoSockets == [k \in Handlers |-> [st |-> "none", closedBy |-> 0]]

IdleHandler == [pc |-> "idle", step |-> 0, sent |-> <<>>, code |-> 0]

\* the promise, the message listener and the timer that one call of
\* sendRequest creates; `by` records what settled the promise
Request(i, h, k, w) ==
  [id |-> i, owner |-> h, step |-> k, socket |-> w, st |-> "pending", by |-> "none",
   listener |-> TRUE]

World(w, n, sk, hr, rq) ==
  [ws |-> w, requestId |-> n, sockets |-> sk, h |-> hr, requests |-> rq]

\* a counter that hands out the same id again
IncrementStuck(n) == IF n > 1 THEN n ELSE n + 1

\* requestId++
Increment(n) == n + 1

\* res.status(200).send(html); ws.close(): closes whatever the module-level
\* ws is at that moment
Succeed(h, wd) ==
  [wd EXCEPT !.h.pc = "done", !.h.code = 200,
             !.sockets[wd.ws] = IF @.st = "closed" THEN @
                                ELSE [st |-> "closed", closedBy |-> h]]

\* the catch of the handler: res.status(500), the socket is left as it is
Fail(wd) == [wd EXCEPT !.h.pc = "failed", !.h.code = 500]

\* sendRequest up to its return: id = requestId++, the listener goes on the
\* module-level ws, the timer is armed, the message is sent.  On a socket
\* that is still connecting send throws, which rejects the promise at once
\* (listener and timer stay); a closed socket drops the message
sendRequest(h, k, wd) ==
  LET w1 == [wd EXCEPT !.requestId = Increment(@),
                       !.requests = Append(@, Request(wd.requestId, h, k, wd.ws))]
      n  == Len(w1.requests)
  IN  IF wd.sockets[wd.ws].st = "connecting"
      THEN [w1 EXCEPT !.requests[n].st = "rejected", !.requests[n].by = "send"]
      ELSE w1

RECURSIVE SendFrom(_, _, _)
RECURSIVE AfterFailure(_, _, _)
\* await sendRequest(...) for the k-th method: a request that was rejected at
\* once goes to the catch of its caller, any other is awaited
SendFrom(h, k, wd) ==
  IF wd.sockets[wd.ws].st = "connecting"
  THEN AfterFailure(h, k, sendRequest(h, k, wd))
  ELSE [sendRequest(h, k, wd) EXCEPT
          !.h.pc = "waiting", !.h.step = k,
          !.h.sent = Append(@, [id |-> wd.requestId, socket |-> wd.ws,
                                method |-> Methods[k]])]

\* a rejected request: authenticate swallows it; getIndexPrice gives null
\* and getInstruments [], on which calculateGammaByExpiration throws;
\* getBookSummary gives [] and the calculation goes on to its end
AfterFailure(h, k, wd) ==
  IF k = 1 THEN SendFrom(h, 2, wd)
  ELSE IF k \in {2, 3} THEN Fail(wd)
  ELSE Succeed(h, wd)

\* a request answered: the next one is sent, or the page is
AfterAnswer(h, k, wd) ==
  IF k < Len(Methods) THEN SendFrom(h, k + 1, wd) ELSE Succeed(h, wd)

Here(h) == World(ws, requestId, sockets, handlers[h], requests)

SetWorld(h, wd) ==
  /\ ws' = wd.ws
  /\ requestId' = wd.requestId
  /\ sockets' = wd.sockets
  /\ handlers' = [handlers EXCEPT ![h] = wd.h]
  /\ requests' = wd.requests

\* an invocation starts: connect() assigns a new socket to ws and waits
HandlerConnect(h) ==
  /\ handlers[h].pc = "idle"
  /\ ws' = h
  /\ sockets' = [sockets EXCEPT ![h].st = "connecting"]
  /\ handlers' = [handlers EXCEPT ![h].pc = "connecting"]
  /\ UNCHANGED <<call, req, gammaVars, runVars, controllerVars, requestId, requests,
                 timeouts>>

\* 'open' on the socket of h: connect resolves, authenticate sends
SocketOpens(h) ==
  /\ handlers[h].pc = "connecting" /\ sockets[h].st = "connecting"
  /\ SetWorld(h, SendFrom(h, 1, [Here(h) EXCEPT !.sockets[h].st = "open"]))
  /\ UNCHANGED <<call, req, gammaVars, runVars, controllerVars, timeouts>>

\* 'error' on the socket of h before it opened (also when it was closed while
\* connecting): connect rejects
SocketFails(h) ==
  /\ handlers[h].pc = "connecting"
  /\ SetWorld(h, Fail([Here(h) EXCEPT !.sockets[h].st = "closed"]))
  /\ UNCHANGED <<call, req, gammaVars, runVars, controllerVars, timeouts>>

\* the request that invocation h is awaiting
PendingOf(h) ==
  CHOOSE k \in DOMAIN requests : requests[k].owner = h /\ requests[k].st = "pending"

\* ws.removeListener('message', messageHandler): takes the listener off the
\* module-level ws, which is the socket of the request only if ws has not
\* been reassigned since
RemoveListener(rq, k, w) ==
  [rq EXCEPT ![k].listener = IF rq[k].socket = w THEN FALSE ELSE @]

\* resolve / reject: no effect on a promise that has settled
Settle(rq, k, st, by) ==
  IF rq[k].st = "pending" THEN [rq EXCEPT ![k].st = st, ![k].by = by] ELSE rq

\* messageHandler on a message with the id of request k
Answer(rq, k, w, ok) ==
  Settle(RemoveListener(rq, k, w), k, IF ok THEN "resolved" ELSE "rejected", "response")

\* the callback of the timer of request k
Expire(rq, k, w) == Settle(RemoveListener(rq, k, w), k, "rejected", "timeout")

\* the listeners ks run on a message that JSON.parse cannot read: each of
\* them rejects its request in catch (e) and stays registered
Garble(rq, ks) ==
  [k \in DOMAIN rq |-> IF k \in ks THEN Settle(rq, k, "rejected", "parse")[k] ELSE rq[k]]

\* a message with the id of the pending request of h arrives on the socket it
\* went over, carrying a result: the listener is removed and the request
\* resolved
MessageArrives(h) ==
  /\ handlers[h].pc = "waiting"
  /\ sockets[requests[PendingOf(h)].socket].st = "open"
  /\ SetWorld(h, AfterAnswer(h, handlers[h].step,
                   [Here(h) EXCEPT !.requests = Answer(@, PendingOf(h), ws, TRUE)]))
  /\ UNCHANGED <<call, req, gammaVars, runVars, controllerVars, timeouts>>

\* the same, carrying message.error: the request is rejected
RequestFails(h) ==
  /\ handlers[h].pc = "waiting"
  /\ sockets[requests[PendingOf(h)].socket].st = "open"
  /\ SetWorld(h, AfterFailure(h, handlers[h].step,
                   [Here(h) EXCEPT !.requests = Answer(@, PendingOf(h), ws, FALSE)]))
  /\ UNCHANGED <<call, req, gammaVars, runVars, controllerVars, timeouts>>

\* the 10 s timer of the oldest request whose timer has not fired (all
\* timers have the same delay, so they fire in the order of the calls):
\* ws.removeListener, then reject, which has no effect on a settled request
TimerFires ==
  /\ timeouts < Len(requests)
  /\ timeouts' = timeouts + 1
  /\ LET k == timeouts + 1
         h == requests[k].owner
     IN  IF requests[k].st = "pending"
         THEN SetWorld(h, AfterFailure(h, requests[k].step,
                            [Here(h) EXCEPT !.requests = Expire(@, k, ws)]))
         ELSE /\ requests' = Expire(requests, k, ws)
              /\ UNCHANGED <<ws, requestId, sockets, handlers>>
  /\ UNCHANGED <<call, req, gammaVars, runVars, controllerVars>>

\* the listeners of socket s whose request is pending
Listening(s) ==
  {k \in DOMAIN requests :
     requests[k].socket = s /\ requests[k].listener /\ requests[k].st = "pending"}

RECURSIVE Continue(_, _, _)
\* the awaits of the requests ks, rejected by one event, go on one after the
\* other in the order of the calls
Continue(ks, wd, hs) ==
  IF ks = {} THEN [wd |-> wd, hs |-> hs]
  ELSE LET k == CHOOSE x \in ks : \A y \in ks : x <= y
           o == wd.requests[k].owner
           r == AfterFailure(o, wd.requests[k].step, [wd EXCEPT !.h = hs[o]])
       IN  Continue(ks \ {k}, r, [hs EXCEPT ![o] = r.h])

\* a message that JSON.parse cannot read arrives on socket s: every listener
\* of the socket runs, JSON.parse throws in each of them and catch (e)
\* rejects its request; no listener is removed
Unparseable(s) ==
  /\ sockets[s].st = "open"
  /\ Listening(s) # {}
  /\ LET r == Continue(Listening(s),
                       World(ws, requestId, sockets, IdleHandler,
                             Garble(requests, Listening(s))),
                       handlers)
     IN  /\ ws' = r.wd.ws
         /\ requestId' = r.wd.requestId
         /\ sockets' = r.wd.sockets
         /\ requests' = r.wd.requests
         /\ handlers' = r.hs
  /\ UNCHANGED <<call, req, gammaVars, runVars, controllerVars, timeouts>>

\* --------------------------------------------- the transport on its own
\* connect() of index.js and the 'open' of its socket
TransportConnect ==
  /\ ws = NoSocket
  /\ ws' = 1
  /\ sockets' = [sockets EXCEPT ![1].st = "open"]
  /\ UNCHANGED <<call, req, gammaVars, runVars, controllerVars, requestId, handlers,
                 requests, timeouts>>

\* sendRequest called from anywhere, also while earlier requests are pending
Call ==
  /\ ws # NoSocket
  /\ Len(requests) < MaxCalls
  /\ SetWorld(1, sendRequest(1, (Len(requests) % Len(Methods)) + 1, Here(1)))
  /\ UNCHANGED <<call, req, gammaVars, runVars, controllerVars, timeouts>>

\* the message with the id of request k arrives, with a result or an error
Answered(k, ok) ==
  /\ k \in Listening(ws)
  /\ requests' = Answer(requests, k, ws, ok)
  /\ UNCHANGED <<call, req, gammaVars, runVars, controllerVars, ws, requestId, sockets,
                 handlers, timeouts>>

\* the next timer fires
Expired ==
  /\ timeouts < Len(requests)
  /\ timeouts' = timeouts + 1
  /\ requests' = Expire(requests, timeouts + 1, ws)
  /\ UNCHANGED <<call, req, gammaVars, runVars, controllerVars, ws, requestId, sockets,
                 handlers>>

\* a message that cannot be parsed arrives
Garbled ==
  /\ ws # NoSocket
  /\ Listening(ws) # {}
  /\ requests' = Garble(requests, Listening(ws))
  /\ UNCHANGED <<call, req, gammaVars, runVars, controllerVars, ws, requestId, sockets,
                 handlers, timeouts>>

\* ------------------------------------------------------------------- Init
Init ==
  /\ call = IdleCall
  /\ req = NoRequest
  /\ gIn = NoArgs /\ gOut = Undefined
  /\ rev = "none"
  /\ pc = "idle"
  /\ reads = <<>>
  /\ indexPrice = Undefined
  /\ instruments = <<>>
  /\ marketDataMap = <<>>
  /\ gammaByExpiration = <<>>
  /\ processedCount = 0
  /\ skippedCount = 0
  /\ batchStart = 0
  /\ cb = <<>>
  /\ result = [status |-> "none"]
  /\ request = NoRequestYet
  /\ currency = "none"
  /\ response = NoResponse
  /\ ws = NoSocket
  /\ requestId = 1
  /\ sockets = NoSockets
  /\ handlers = [h \in Handlers |-> IdleHandler]
  /\ requests = <<>>
  /\ timeouts = 0

NextFetch == (\E r \in 0..MaxRetries : Invoke(r)) \/ FetchStep

SpecFetch == Init /\ [][NextFetch]_vars

NextGamma == CallCalculateGamma

SpecGamma == Init /\ [][NextGamma]_vars

Next ==
  \/ \E r \in HttpRevs \cup WsRevs : StartRun(r)
  \/ HttpStep
  \/ HttpReadDone
  \/ \E i \in 1..MaxInstruments, rejected \in BOOLEAN, g \in OrderBookGammas :
       OrderBookSettles(i, rejected, g)
  \/ BatchDone
  \/ WsSettles
  \/ WsReadDone
  \/ ControllerResponds

Spec == Init /\ [][Next]_vars

NextController ==
  \/ \E r \in HttpRevs, ctl \in {"plain", "query"}, q \in Currencies : Receive(r, ctl, q)
  \/ \E res \in Outcomes : ServiceSettles(res)
  \/ ControllerResponds

SpecController == Init /\ [][NextController]_vars

NextHandler ==
  \E h \in Handlers :
    \/ HandlerConnect(h)
    \/ SocketOpens(h)
    \/ SocketFails(h)
    \/ MessageArrives(h)
    \/ RequestFails(h)
    \/ Unparseable(h)
    \/ TimerFires /\ h = 1

SpecHandler == Init /\ [][NextHandler]_vars

NextTransport ==
  \/ TransportConnect
  \/ Call
  \/ \E k \in 1..MaxCalls : \E ok \in BOOLEAN : Answered(k, ok)
  \/ Expired
  \/ Garbled

SpecTransport == Init /\ [][NextTransport]_vars

\* ================================================================ claims

\* C1: fetchWithRetry(url, retries) issues at most retries + 1 attempts; once
\* an attempt has succeeded the call has returned it and no further attempt
\* is issued; a failed call has issued exactly retries + 1 attempts.
C1_AttemptsBounded ==
  /\ call.issued <= call.retries + 1
  /\ call.okAt > 0 => call.st = "ok" /\ call.issued = call.okAt
  /\ call.st = "ok" => call.okAt = call.issued
  /\ call.st = "failed" => call.issued = call.retries + 1

C1_Witness ==
  call.st = "failed" /\ call.retries = RETRIES /\ call.issued = 3

C3_EveryOperationTimeBounded ==
  call.st \in {"fetching", "body"} => call.timer

\* C4: the k-th wait of a call lasts k x 1 s; there is one wait after each
\* failed attempt but the last, and none after the final failed attempt.
C4_LinearBackoff ==
  /\ \A k \in 1..Len(call.waits) : call.waits[k] = k * 1000
  /\ Len(call.waits) = IF call.st = "failed" THEN call.retries ELSE call.failures

C4_Witness ==
  call.st = "failed" /\ call.retries = RETRIES /\ call.waits = <<1000, 2000>>

\* ---- the run
\* an upstream read of the run has failed
ReadFailed ==
  \/ rev \in HttpRevs /\ pc \in ReadNames \cup {"done"} /\ call.st = "failed"
  \/ rev \in WsRevs /\ pc \in ReadNames \cup {"done"} /\ req.st = "rejected"

\* the run went through the whole instrument loop
LoopEnded ==
  /\ pc = "done"
  /\ \/ result.status = "success"
     \/ result.status = "error" /\ result.text = EmptyResultText

\* instrument i has no matching quote (a null entry has no name to match)
Unquoted(i) ==
  Inst(instruments[i]).isNull \/ instruments[i] \notin DOMAIN marketDataMap

\* the pricing inputs S, K, T, sigma of a quoted instrument are all positive
PricingInputsValid(i) ==
  /\ GtZero(indexPrice)
  /\ GtZero(Inst(instruments[i]).strike)
  /\ GtZero(TimeToExpiry(Inst(instruments[i]).expiration_timestamp))
  /\ GtZero(marketDataMap[instruments[i]].mark_iv)

NoQuoteCount == Cardinality({i \in 1..Len(instruments) : Unquoted(i)})

AllRecords ==
  UNION {Range(gammaByExpiration[b].instruments) : b \in 1..Len(gammaByExpiration)}

\* C5: once one of the three upstream reads has failed, the only step the
\* run takes ends it with an error, without issuing another read and with no
\* instrument folded into a bucket; a run whose read failed never succeeds.
C5_FetchFailureAborts ==
  /\ [](ReadFailed => /\ result.status # "success"
                      /\ gammaByExpiration = <<>> /\ processedCount = 0
                      /\ reads[Len(reads)] =
                           IF rev \in HttpRevs THEN call.url ELSE req.method)
  /\ [][ReadFailed => /\ pc' = "done" /\ result'.status = "error"
                      /\ reads' = reads
                      /\ gammaByExpiration' = <<>> /\ processedCount' = 0]_vars

C5_Witness ==
  /\ rev = "index" /\ pc = "done" /\ result.status = "error"
  /\ req.st = "rejected" /\ req.method = "instruments"
  /\ reads = <<"price", "instruments">>

\* C6: when getGammaData has gone through its instrument loop, every
\* instrument that had no quote, threw, or had a non-positive pricing input
\* has been tallied in skippedCount.
C6_EveryFailureTallied ==
  (rev \in HttpRevs /\ LoopEnded) =>
    skippedCount >=
      Cardinality({i \in 1..Len(instruments) : Unquoted(i) \/ ~PricingInputsValid(i)})

\* C7: a run never returns a success result whose gammaByExpiration is empty.
C7_NoEmptySuccess ==
  result.status = "success" => Len(result.gammaByExpiration) > 0

C9_NoRecordWithoutExposure ==
  /\ \A rec \in AllRecords : GtZero(rec.open_interest) /\ IsNum(rec.gamma)
  /\ LoopEnded =>
       skippedCount >=
         Cardinality({i \in 1..Len(instruments) :
                        ~Unquoted(i) /\ ~GtZero(marketDataMap[instruments[i]].open_interest)})

\* C11: after the instrument loop, in every bucket total_gamma equals
\* call_gamma + put_gamma and total_gamma_usd equals call_gamma_usd +
\* put_gamma_usd.
C11_SumLaw ==
  LoopEnded =>
    \A b \in 1..Len(gammaByExpiration) :
      /\ StrictEq(gammaByExpiration[b].total_gamma,
                  FAdd(gammaByExpiration[b].call_gamma, gammaByExpiration[b].put_gamma))
      /\ StrictEq(gammaByExpiration[b].total_gamma_usd,
                  FAdd(gammaByExpiration[b].call_gamma_usd,
                       gammaByExpiration[b].put_gamma_usd))

RecordNames(b) ==
  {gammaByExpiration[b].instruments[k].instrument_name :
     k \in 1..Len(gammaByExpiration[b].instruments)}

IsPrefix(s, t) == Len(s) <= Len(t) /\ \A k \in 1..Len(s) : s[k] = t[k]

\* C12: every record lies in the bucket of the UTC day of its instrument's
\* expiry and in no other, there is one bucket per day and one record per
\* processed instrument; a step never removes a bucket, changes its date or
\* drops records from it.
C12_OneBucketPerDay ==
  /\ [](/\ \A i, j \in 1..Len(gammaByExpiration) :
             gammaByExpiration[i].date = gammaByExpiration[j].date => i = j
        /\ \A b \in 1..Len(gammaByExpiration) :
             /\ \A n \in RecordNames(b) :
                  ExpirationDate(Inst(n).expiration_timestamp) = gammaByExpiration[b].date
             /\ Cardinality(RecordNames(b)) = Len(gammaByExpiration[b].instruments)
             /\ \A c \in 1..Len(gammaByExpiration) :
                  c # b => RecordNames(b) \cap RecordNames(c) = {}
        /\ Cardinality(AllRecords) = processedCount)
  /\ [][\A b \in 1..Len(gammaByExpiration) :
          /\ b <= Len(gammaByExpiration')
          /\ gammaByExpiration'[b].date = gammaByExpiration[b].date
          /\ IsPrefix(gammaByExpiration[b].instruments,
                      gammaByExpiration'[b].instruments)]_vars

C12_Witness ==
  /\ rev = "service" /\ LoopEnded
  /\ Len(gammaByExpiration) = 2
  /\ \E b \in 1..2 : Len(gammaByExpiration[b].instruments) = 2

\* the expiration-date keys of the returned buckets
ResultKeys == {result.gammaByExpiration[b].date : b \in 1..Len(result.gammaByExpiration)}

Joinable == {i \in 1..Len(instruments) : ~Unquoted(i)}

DayOf(i) == Inst(instruments[i]).expiration_timestamp \div TicksPerDay

\* the joinable instrument i has what its revision needs to process it: it
\* expires after now and its quote has a positive implied volatility; the
\* Black-Scholes revisions also need a positive strike and index price, the
\* order-book revision a positive open interest
InputsUsable(i) ==
  /\ Inst(instruments[i]).expiration_timestamp > Now
  /\ marketDataMap[instruments[i]].mark_iv > 0
  /\ IF rev = "service"
     THEN marketDataMap[instruments[i]].open_interest > 0
     ELSE Inst(instruments[i]).strike > 0 /\ indexPrice > 0

\* C13, as stated: on success the keys are the days of the joinable
\* instruments, and there is at least one.
C13_Original ==
  (rev \in HttpRevs /\ result.status = "success") =>
    /\ ResultKeys = {DayOf(i) : i \in Joinable}
    /\ ResultKeys # {}

\* C13: on success the keys are the days of the joinable instruments whose
\* inputs are usable, a subset of the days of the joinable instruments;
\* getGammaData never succeeds without a key.
C13_KeysOfProcessed ==
  result.status = "success" =>
    /\ ResultKeys = {DayOf(i) : i \in {j \in Joinable : InputsUsable(j)}}
    /\ ResultKeys \subseteq {DayOf(i) : i \in Joinable}
    /\ rev \in HttpRevs => ResultKeys # {}

C13_Witness ==
  /\ rev = "part002" /\ result.status = "success"
  /\ instruments = <<"a", "x", "c">> /\ DOMAIN marketDataMap = {"a", "x", "c"}
  /\ ResultKeys = {6, 7}

\* C10: calculateGamma returns null whenever spot, strike, time to expiry or
\* volatility is missing, NaN or <= 0.
BadArg(x) == ~IsNum(x) \/ x <= 0

C10_InvalidInputsGiveNull ==
  (gOut # Undefined /\ (BadArg(gIn.S) \/ BadArg(gIn.K) \/ BadArg(gIn.T) \/ BadArg(gIn.sigma)))
    => gOut = Null

C10_Witness ==
  /\ gIn.S = Scale /\ gIn.K = Scale /\ gIn.sigma = Scale
  /\ gIn.T = 0 - Scale
  /\ gOut = Null

\* the strike table of a result: the records of all its expirations, and the
\* net signed exposure at a strike (calls positive, puts negative)
ResultRecords ==
  UNION {Range(result.gammaByExpiration[b].instruments) :
           b \in 1..Len(result.gammaByExpiration)}

ResultStrikes == {r.strike : r \in ResultRecords}

Signed(r) ==
  IF ~IsNum(r.gamma_exposure) THEN 0
  ELSE IF r.option_type = "put" THEN 0 - r.gamma_exposure
  ELSE r.gamma_exposure

RECURSIVE SumSigned(_)
SumSigned(rs) ==
  IF rs = {} THEN 0
  ELSE LET r == CHOOSE x \in rs : TRUE IN Signed(r) + SumSigned(rs \ {r})

NetAt(k) == SumSigned({r \in ResultRecords : r.strike = k})

Adjacent(lo, hi) ==
  lo < hi /\ ~ \E k \in ResultStrikes : lo < k /\ k < hi

Abs(x) == IF x < 0 THEN 0 - x ELSE x

\* C14: a successful result carries gexFlipLevel; it is none when the net
\* signed exposure has the same sign at every strike, and it is the strike A
\* when the net exposure is positive at A and negative at the next strike.
C14_FlipLevelCarried ==
  result.status = "success" =>
    /\ "gexFlipLevel" \in DOMAIN result
    /\ ((\A k \in ResultStrikes : NetAt(k) > 0) \/ (\A k \in ResultStrikes : NetAt(k) < 0))
         => result.gexFlipLevel = Null
    /\ \A lo, hi \in ResultStrikes :
         (Adjacent(lo, hi) /\ NetAt(lo) > 0 /\ NetAt(hi) < 0) => result.gexFlipLevel = lo

\* C15: a successful result carries maxGexStrike and maxGexValue: the value
\* is the net signed exposure at that strike, no strike has a larger absolute
\* net exposure, and among the strikes that tie the lowest is reported.
C15_MaxExposureCarried ==
  result.status = "success" =>
    /\ {"maxGexStrike", "maxGexValue"} \subseteq DOMAIN result
    /\ result.maxGexStrike \in ResultStrikes
    /\ result.maxGexValue = NetAt(result.maxGexStrike)
    /\ \A k \in ResultStrikes :
         /\ Abs(NetAt(k)) <= Abs(result.maxGexValue)
         /\ Abs(NetAt(k)) = Abs(result.maxGexValue) => result.maxGexStrike <= k

\* C16: the buckets of the result that getGammaData returns, which the
\* controller sends as it is, stand in ascending date order. (index.js and the
\* page of part_004 sort the keys themselves before they print.)
C16_BucketsAscending ==
  (rev \in HttpRevs /\ result.status = "success") =>
    \A b \in 1..(Len(result.gammaByExpiration) - 1) :
      result.gammaByExpiration[b].date < result.gammaByExpiration[b + 1].date

\* the records of a bucket added up in one fixed order, that of the
\* instrument ids, whatever the order in which they were folded
First(rs) ==
  CHOOSE r \in rs : \A q \in rs :
    Inst(r.instrument_name).instrument_id <= Inst(q.instrument_name).instrument_id

RECURSIVE SumInIdOrder(_, _, _)
SumInIdOrder(sum, rs, usd) ==
  IF rs = {} THEN sum
  ELSE LET r == First(rs)
       IN  SumInIdOrder(FAdd(sum, IF usd THEN r.gamma_exposure_usd ELSE r.gamma_exposure),
                        rs \ {r}, usd)

\* C17: the totals of a bucket depend on the set of records folded into it
\* and not on the order of the folds: they are what adding the records in the
\* order of their ids gives, for every permutation of the instrument list,
\* every batch and every order in which the callbacks complete.
C17_OrderIndependent ==
  LoopEnded =>
    \A b \in 1..Len(gammaByExpiration) :
      LET rs == Range(gammaByExpiration[b].instruments)
      IN  /\ gammaByExpiration[b].total_gamma = SumInIdOrder(0, rs, FALSE)
          /\ gammaByExpiration[b].total_gamma_usd = SumInIdOrder(0, rs, TRUE)

\* C18: runs do not share a transport handle: every request of an invocation
\* of the handler goes over the socket that this invocation opened, and a
\* socket is closed by nobody but the invocation that opened it.  (The
\* buckets and the counters are locals of each call of getGammaData /
\* calculateGammaByExpiration.)
C18_RunsIndependent ==
  \A h \in Handlers :
    /\ \A k \in 1..Len(handlers[h].sent) : handlers[h].sent[k].socket = h
    /\ sockets[h].closedBy \in {0, h}

\* C19: what the controller answers is either 200 with the complete result
\* of the service (all buckets of the run, the index price) or 500 with the
\* message of the error; a failed getGammaData is never answered with 200.
C19_ResultOrError ==
  response # NoResponse =>
    \/ /\ response.code = 200
       /\ result.status = "success"
       /\ response.body = [gammaByExpiration |-> gammaByExpiration,
                           indexPrice |-> indexPrice]
    \/ /\ response.code = 500
       /\ result.status # "success"
       /\ response.body = [error |-> IF result.status = "error" THEN result.text
                                     ELSE InvalidCurrencyText,
                           status |-> "error"]

C19_Witness ==
  /\ rev = "service" /\ ReadFailed
  /\ response.code = 500
  /\ response.body.error = "Failed to fetch gamma data: Failed after attempts"

\* C20: the currency defaults to BTC and is compared without regard to
\* case: a request for a supported currency has getGammaData called for it,
\* a request for any other currency is answered with an error and
\* getGammaData is not called.
C20_CurrencyValidated ==
  request.controller # "none" =>
    LET curr == toUpperCase(OrDefault(request.currency))
    IN  IF curr \in Supported
        THEN currency = curr
        ELSE currency = "none" /\ response.code = 500 /\ pc = "done"

\* the gamma of a record before its rounding for display: the one of the
\* order book in gamma.service.ts, the one of calculateGamma elsewhere
GammaOf(r) ==
  IF rev = "service" THEN r.gamma
  ELSE calculateGamma(indexPrice, r.strike,
                      TimeToExpiry(Inst(r.instrument_name).expiration_timestamp),
                      0, r.mark_iv)

\* openInterest x gamma x 100 x spot x (0.01 x spot)
ConventionUSD(openInterest, gamma, spot) ==
  FMul(FMul(IMul(FMul(openInterest, gamma), 100), spot), FMul(1, spot))

\* C21: the dollar exposure of every record is
\* openInterest x gamma x 100 x spot x (0.01 x spot), in every revision.
C21_DollarConvention ==
  LoopEnded =>
    \A r \in AllRecords :
      r.gamma_exposure_usd = ConventionUSD(r.open_interest, GammaOf(r), indexPrice)

OptionTypes == {Inst(n).option_type : n \in Names}

RECURSIVE SumInListOrder(_, _, _, _)
\* the exposures of the records of some option types, added in list order
SumInListOrder(recs, k, types, usd) ==
  IF k > Len(recs) THEN 0
  ELSE IF recs[Len(recs) + 1 - k].option_type \in types
       THEN FAdd(SumInListOrder(recs, k + 1, types, usd),
                 IF usd THEN recs[Len(recs) + 1 - k].gamma_exposure_usd
                 ELSE recs[Len(recs) + 1 - k].gamma_exposure)
       ELSE SumInListOrder(recs, k + 1, types, usd)

\* C22: the contract-unit exposure of every record is gamma x openInterest,
\* and call_gamma / put_gamma of a bucket are the sums of these values over
\* its calls / puts.
C22_ContractUnits ==
  LoopEnded =>
    /\ \A r \in AllRecords : r.gamma_exposure = FMul(GammaOf(r), r.open_interest)
    /\ \A b \in 1..Len(gammaByExpiration) :
         /\ gammaByExpiration[b].call_gamma =
              SumInListOrder(gammaByExpiration[b].instruments, 1, {"call"}, FALSE)
         /\ gammaByExpiration[b].put_gamma =
              SumInListOrder(gammaByExpiration[b].instruments, 1, {"put"}, FALSE)

\* C23: in every state of the fold the six figures of every bucket and the
\* two exposures of every record are >= 0, and the call (put) figures hold
\* the exposures of the calls (puts) and of nothing else.
C23_MagnitudesNonNegative ==
  \A b \in 1..Len(gammaByExpiration) :
    LET bucket == gammaByExpiration[b]
        GeqZero(x) == IsNum(x) /\ x >= 0    \* false when x is NaN
    IN  /\ GeqZero(bucket.total_gamma) /\ GeqZero(bucket.total_gamma_usd)
        /\ GeqZero(bucket.call_gamma) /\ GeqZero(bucket.call_gamma_usd)
        /\ GeqZero(bucket.put_gamma) /\ GeqZero(bucket.put_gamma_usd)
        /\ \A k \in 1..Len(bucket.instruments) :
             /\ GeqZero(bucket.instruments[k].gamma_exposure)
             /\ GeqZero(bucket.instruments[k].gamma_exposure_usd)
        /\ bucket.call_gamma_usd = SumInListOrder(bucket.instruments, 1, {"call"}, TRUE)
        /\ bucket.put_gamma_usd = SumInListOrder(bucket.instruments, 1, {"put"}, TRUE)

\* C25: the enrichment runs in consecutive batches of at most batchSize
\* instruments; a batch starts only when every callback of the batch before
\* it has completed, so at most batchSize fetch chains are in flight
C25_BoundedBatches ==
  /\ [](/\ Cardinality(DOMAIN cb) <= batchSize
        /\ Cardinality(InFlight) <= batchSize
        /\ \A i \in DOMAIN cb : batchStart < i /\ i <= batchStart + batchSize)
  /\ [][(pc = "batch" /\ batchStart' # batchStart) => InFlight = {}]_vars

\* the second batch is running while the first one has been folded
C25_Witness ==
  /\ rev = "service" /\ pc = "batch" /\ batchStart = batchSize
  /\ InFlight # {} /\ processedCount > 0

\* C26: whatever the order in which the callbacks of a batch complete, after
\* the last batch every figure of a bucket is the sum of the exposures of the
\* records in the bucket's list, and processedCount is the number of records
C26_NoLostUpdate ==
  LoopEnded =>
    /\ processedCount = Cardinality(AllRecords)
    /\ \A b \in 1..Len(gammaByExpiration) :
         LET bucket == gammaByExpiration[b]
             recs   == bucket.instruments
         IN  /\ bucket.total_gamma = SumInListOrder(recs, 1, OptionTypes, FALSE)
             /\ bucket.total_gamma_usd = SumInListOrder(recs, 1, OptionTypes, TRUE)
             /\ bucket.call_gamma = SumInListOrder(recs, 1, {"call"}, FALSE)
             /\ bucket.call_gamma_usd = SumInListOrder(recs, 1, {"call"}, TRUE)
             /\ bucket.put_gamma = SumInListOrder(recs, 1, {"put"}, FALSE)
             /\ bucket.put_gamma_usd = SumInListOrder(recs, 1, {"put"}, TRUE)

\* a finished run of gamma.service.ts in which two callbacks of one batch
\* completed in the reverse of the order in which they started
C26_Witness ==
  /\ rev = "service" /\ LoopEnded /\ result.status = "success"
  /\ \E b \in 1..Len(gammaByExpiration) :
       LET recs == gammaByExpiration[b].instruments
       IN  /\ Len(recs) >= 2
           /\ \E i \in 1..Len(instruments) : \E j \in 1..Len(instruments) :
                /\ i < j
                /\ recs[1].instrument_name = instruments[j]
                /\ recs[2].instrument_name = instruments[i]

\* C29: at the end of the instrument loop every fetched instrument has been
\* counted exactly once, as processed or as skipped:
\* processedCount + skippedCount is the number of instruments
C29_CountedOnce ==
  LoopEnded => processedCount + skippedCount = Len(instruments)

\* C24: the request counter only grows, and every call of sendRequest takes
\* an id greater than every id taken before it: the ids of the requests
\* increase in the order of the calls, pending ones included, and all lie
\* below the counter
C24_IdsIncrease ==
  /\ [](\A i \in DOMAIN requests :
          /\ requests[i].id < requestId
          /\ \A j \in DOMAIN requests : i < j => requests[i].id < requests[j].id)
  /\ [][requestId' >= requestId]_vars

\* two requests are pending at the same time
C24_Witness ==
  \E i \in DOMAIN requests : \E j \in DOMAIN requests :
    /\ i < j
    /\ requests[i].st = "pending" /\ requests[j].st = "pending"
    /\ requests[i].socket = requests[j].socket

\* C27: a request that was pending has been settled by nothing but the
\* message with its own id or its own timer (a request whose send threw was
\* rejected before it was ever pending); a message for another request or a
\* message that cannot be parsed settles no request
C27_SettledByOwnEvent ==
  \A k \in DOMAIN requests :
    requests[k].st # "pending" => requests[k].by \in {"response", "timeout", "send"}

\* C28: a request settles once, by whichever of its answer and its timer
\* comes first, and the later event changes nothing; when the request has
\* settled and its timer has fired, its listener is no longer registered
C28_ListenerRemoved ==
  \A k \in DOMAIN requests :
    (requests[k].st # "pending" /\ k <= timeouts) => ~requests[k].listener

\* C30: no run ends leaving its connection open: when an invocation has
\* answered, with the page or with an error, the socket it opened is closed
C30_SocketClosedAtEnd ==
  \A h \in Handlers :
    handlers[h].pc \in {"done", "failed"} => sockets[h].st = "closed"

====
